---------------------------- MODULE Spec2Model ----------------------------
(***************************************************************************)
(* ai-digest: the RSS collector (src/src/collect_articles.py) and the      *)
(* three analysis scripts that score, categorize and select its articles   *)
(* (src/analyze_today.py, src/filter_and_generate.py,                      *)
(* src/src/analyze_articles.py).                                           *)
(*                                                                         *)
(* Texts are TLA+ strings and keyword tests are substring tests, as in the *)
(* Python code.  A Python number is kept as [v, float]: v is its value in  *)
(* tenths, float tells an int from a float.                                *)
(***************************************************************************)
EXTENDS Integers, Sequences, FiniteSets, TLC

VARIABLES
    prog,            \* the script that runs
    pc,              \* its position
    hours,           \* collect_articles: --hours
    entries,         \* collect_articles: the feed's entries
    articles,        \* the list main() loads from it
    file,            \* collected_articles.json
    recent_articles, \* analyze_articles.main
    scored,          \* scored / scored_articles
    selected,        \* selected / selected_articles / filtered_articles
    arxiv_count,     \* the walk's running count
    art,             \* argument of a single call of score_article / categorize_article
    ret              \* what that call returned

vars == <<prog, pc, hours, entries, file, articles, recent_articles, scored,
          selected, arxiv_count, art, ret>>

-----------------------------------------------------------------------------
(* Python strings *)

\* str.lower(), character by character
LowerChar(c) ==
    CASE c = "A" -> "a" [] c = "B" -> "b" [] c = "C" -> "c" [] c = "D" -> "d"
      [] c = "E" -> "e" [] c = "F" -> "f" [] c = "G" -> "g" [] c = "H" -> "h"
      [] c = "I" -> "i" [] c = "J" -> "j" [] c = "K" -> "k" [] c = "L" -> "l"
      [] c = "M" -> "m" [] c = "N" -> "n" [] c = "O" -> "o" [] c = "P" -> "p"
      [] c = "Q" -> "q" [] c = "R" -> "r" [] c = "S" -> "s" [] c = "T" -> "t"
      [] c = "U" -> "u" [] c = "V" -> "v" [] c = "W" -> "w" [] c = "X" -> "x"
      [] c = "Y" -> "y" [] c = "Z" -> "z" [] OTHER -> c

RECURSIVE LowerFrom(_, _)
LowerFrom(s, i) ==
    IF i > Len(s) THEN "" ELSE LowerChar(SubSeq(s, i, i)) \o LowerFrom(s, i + 1)

Lower(s) == LowerFrom(s, 1)

\* kw in text
In(kw, text) ==
    \E i \in 1..(Len(text) - Len(kw) + 1) : SubSeq(text, i, i + Len(kw) - 1) = kw

\* any(kw in text for kw in kws)
AnyIn(kws, text) == \E k \in 1..Len(kws) : In(kws[k], text)

\* sum(1 for kw in kws if kw in text)
Matches(kws, text) == Cardinality({k \in 1..Len(kws) : In(kws[k], text)})

\* f"{title} {description}"
Combined(title, description) == title \o " " \o description

Min(a, b) == IF a <= b THEN a ELSE b
Max(a, b) == IF a >= b THEN a ELSE b

(* Python numbers *)
PyInt(n) == [v |-> 10 * n, float |-> FALSE]
\* x * 0.3
TimesThreeTenths(n) == [v |-> 3 * n, float |-> TRUE]
\* min(x, y) of two Python numbers: the first argument wins a tie
PyMin(x, y) == IF y.v < x.v THEN y ELSE x
\* x >= n
PyGe(x, n) == x.v >= 10 * n
PyLe(x, n) == x.v <= 10 * n
IsInt(x) == ~x.float

-----------------------------------------------------------------------------
(* analyze_today.py *)

today_agentic_keywords ==
    <<"agent", "agentic", "autonomous", "multi-agent", "tool use",
      "function calling", "mcp", "model context protocol",
      "reasoning", "planning", "workflow", "orchestration",
      "tool calling", "langchain", "langgraph", "crewai">>

today_production_keywords ==
    <<"production", "deployment", "real-world", "implementation",
      "case study", "benchmark", "framework", "sdk", "api",
      "system", "platform", "enterprise", "scale">>

today_ai_keywords == <<"llm", "large language", "ai", "gpt", "claude", "gemini">>

today_dev_keywords == <<"developer", "code", "programming", "engineering">>

today_theory_keywords == <<"theoretical", "mathematical proof", "convergence">>

\* score_article's accumulated score before the final clamp
\* 'arxiv.org' in url, with url = article.get('url', '').lower()
today_scored_as_arxiv(a) == In("arxiv.org", Lower(a.url))

today_raw_score(a) ==
    LET combined == Combined(Lower(a.title), Lower(a.description))
        s1 == Min(40, Matches(today_agentic_keywords, combined) * 15)
        s2 == IF AnyIn(today_production_keywords, combined) THEN 25 ELSE 0
        s3 == IF AnyIn(today_ai_keywords, combined) THEN 20 ELSE 0
        s4 == IF AnyIn(today_dev_keywords, combined) THEN 10 ELSE 0
        s5 == IF ~today_scored_as_arxiv(a) THEN 10 ELSE 0
        s6 == IF today_scored_as_arxiv(a) /\ AnyIn(today_theory_keywords, combined)
              THEN -15 ELSE 0
    IN  s1 + s2 + s3 + s4 + s5 + s6

\* the production signal worth the 30 points its comment names, not 25
today_score_article_production30(a) ==
    LET combined == Combined(Lower(a.title), Lower(a.description))
    IN  PyInt(Max(0, Min(100, today_raw_score(a)
                  + (IF AnyIn(today_production_keywords, combined) THEN 5 ELSE 0))))

today_score_article(a) == PyInt(Max(0, Min(100, today_raw_score(a))))

today_production_indicators ==
    <<"production", "deployment", "real-world", "case study">>

today_framework_indicators == <<"framework", "sdk", "tool", "library", "api">>

today_categorize_article(a) ==
    LET combined == Combined(Lower(a.title), Lower(a.description))
    IN  IF AnyIn(today_production_indicators, combined)
          THEN "Production Use Cases"
        ELSE IF AnyIn(today_framework_indicators, combined)
          THEN "Frameworks & Tools"
        ELSE IF AnyIn(<<"tutorial", "guide", "how to", "example">>, combined)
          THEN "Developer Resources"
        ELSE IF AnyIn(<<"trend", "analysis", "survey", "benchmark">>, combined)
          THEN "Trends & Analysis"
        ELSE "Research & Breakthroughs"

-----------------------------------------------------------------------------
(* filter_and_generate.py *)

fg_high_value ==
    <<"agent", "agentic", "autonomous", "multi-agent", "tool use",
      "function calling", "mcp", "model context protocol",
      "reasoning", "planning", "workflow", "orchestration">>

fg_production_keywords ==
    <<"production", "deployment", "real-world", "implementation",
      "case study", "benchmark", "framework", "sdk", "api",
      "tool", "application", "system", "platform">>

fg_ai_keywords ==
    <<"llm", "large language model", "gpt", "claude", "gemini",
      "ai", "artificial intelligence", "neural", "transformer">>

fg_dev_keywords ==
    <<"developer", "coding", "programming", "software",
      "engineering", "code", "github">>

fg_theory_only ==
    <<"theoretical", "mathematical proof", "convergence analysis",
      "formal verification", "complexity bounds">>

fg_breakthrough_keywords ==
    <<"breakthrough", "novel", "first", "new benchmark",
      "state-of-the-art", "sota", "outperforms">>

\* 'arxiv.org' in url, with url = article.get('url', '').lower()
fg_scored_as_arxiv(a) == In("arxiv.org", Lower(a.url))

fg_raw_score(a) ==
    LET combined == Combined(Lower(a.title), Lower(a.description))
        s1 == IF AnyIn(fg_high_value, combined) THEN 20 ELSE 0
        s2 == IF AnyIn(fg_production_keywords, combined) THEN 15 ELSE 0
        s3 == IF AnyIn(fg_ai_keywords, combined) THEN 20 ELSE 0
        s4 == IF AnyIn(fg_dev_keywords, combined) THEN 10 ELSE 0
        s5 == IF ~fg_scored_as_arxiv(a) THEN 10 ELSE 0
        s6 == IF fg_scored_as_arxiv(a) /\ AnyIn(fg_theory_only, combined)
              THEN -20 ELSE 0
        s7 == IF fg_scored_as_arxiv(a) /\ AnyIn(fg_breakthrough_keywords, combined)
              THEN 15 ELSE 0
    IN  s1 + s2 + s3 + s4 + s5 + s6 + s7

fg_score_article(a) == PyInt(Max(0, Min(100, fg_raw_score(a))))

fg_production_indicators ==
    <<"production", "deployment", "real-world", "case study", "implementation">>

fg_framework_indicators ==
    <<"framework", "sdk", "tool", "library", "api", "platform">>

fg_categorize_article(a) ==
    LET combined == Combined(Lower(a.title), Lower(a.description))
    IN  IF AnyIn(fg_production_indicators, combined)
          THEN "Production Use Cases"
        ELSE IF AnyIn(fg_framework_indicators, combined)
          THEN "Frameworks & Tools"
        ELSE IF AnyIn(<<"tutorial", "guide", "how to", "documentation", "example">>, combined)
          THEN "Developer Resources"
        ELSE IF AnyIn(<<"trend", "analysis", "survey", "benchmark", "evaluation">>, combined)
          THEN "Trends & Analysis"
        ELSE "Research & Breakthroughs"

-----------------------------------------------------------------------------
(* src/analyze_articles.py.  The records carry 'description' and 'url', as *)
(* the collector writes them, so these are what article.get('summary',    *)
(* ...) and article.get('link', ...) fall back to.                         *)

aa_production_keywords ==
    <<"production", "deployment", "case study", "real-world", "enterprise",
      "customer", "implementation", "using", "how to", "practical",
      "langsmith", "langgraph", "servicenow", "company">>

aa_agent_keywords ==
    <<"agent", "agentic", "autonomous", "tool use", "tool calling",
      "mcp", "model context protocol", "multi-agent", "orchestration",
      "reasoning", "planning", "workflow">>

aa_framework_keywords ==
    <<"framework", "library", "sdk", "api", "tool", "platform",
      "langchain", "autogen", "crewai", "anthropic", "openai">>

\* the additive total before the arXiv branch
aa_raw_score(a) ==
    LET content == Combined(Lower(a.title), Lower(a.description))
        agent_matches      == Matches(aa_agent_keywords, content)
        production_matches == Matches(aa_production_keywords, content)
        framework_matches  == Matches(aa_framework_keywords, content)
    IN  Min(agent_matches * 15, 40)
        + (IF production_matches > 0 THEN Min(production_matches * 20, 50) ELSE 0)
        + (IF framework_matches > 0 THEN Min(framework_matches * 10, 30) ELSE 0)

\* is_arxiv = 'arxiv.org' in link; the link is not lower-cased here
aa_scored_as_arxiv(a) == In("arxiv.org", a.url)

\* score_article(article)[0]
aa_score_article(a) ==
    LET content == Combined(Lower(a.title), Lower(a.description))
        is_arxiv == aa_scored_as_arxiv(a)
        agent_matches      == Matches(aa_agent_keywords, content)
        production_matches == Matches(aa_production_keywords, content)
        score == aa_raw_score(a)
    IN  IF agent_matches = 0 THEN PyInt(0)
        ELSE IF is_arxiv /\ production_matches = 0
          THEN PyMin(PyMin(TimesThreeTenths(score), PyInt(40)), PyInt(100))
        ELSE PyMin(PyInt(score), PyInt(100))

aa_production_indicators ==
    <<"production", "deployment", "case study", "customer", "enterprise",
      "real-world", "implementation">>
aa_framework_indicators ==
    <<"framework", "library", "sdk", "api", "tool", "release", "version">>
aa_resource_indicators ==
    <<"guide", "tutorial", "how to", "documentation", "learning">>
aa_analysis_indicators ==
    <<"trend", "analysis", "survey", "benchmark", "comparison", "review">>

\* the cascade with the framework rule tested before the production rule
aa_categorize_framework_first(a) ==
    LET content == Combined(Lower(a.title), Lower(a.description))
        is_arxiv == In("arxiv.org", a.url)
    IN  IF AnyIn(aa_framework_indicators, content) /\ ~is_arxiv
          THEN "Frameworks & Tools"
        ELSE IF AnyIn(aa_production_indicators, content)
          THEN "Production Use Cases"
        ELSE IF AnyIn(aa_resource_indicators, content)
          THEN "Developer Resources"
        ELSE IF AnyIn(aa_analysis_indicators, content)
          THEN "Trends & Analysis"
        ELSE "Research & Breakthroughs"

aa_categorize_article(a) ==
    LET content == Combined(Lower(a.title), Lower(a.description))
        is_arxiv == In("arxiv.org", a.url)
    IN  IF AnyIn(aa_production_indicators, content)
          THEN "Production Use Cases"
        ELSE IF AnyIn(aa_framework_indicators, content) /\ ~is_arxiv
          THEN "Frameworks & Tools"
        ELSE IF AnyIn(aa_resource_indicators, content)
          THEN "Developer Resources"
        ELSE IF AnyIn(aa_analysis_indicators, content)
          THEN "Trends & Analysis"
        ELSE "Research & Breakthroughs"

-----------------------------------------------------------------------------
(* Inputs: articles as collect_articles.py writes them (title, url,        *)
(* published, description).  idx is the record's position in the loaded    *)
(* list (its identity as a Python object); annotated, relevance_score and  *)
(* category are the keys filter_and_generate.main adds.                    *)

\* title words an input title is put together from
TitleWords ==
    <<"Agentic", "workflow", "Production", "framework", "LLM", "developer",
      "novel", "theoretical">>

RECURSIVE JoinFrom(_, _, _)
JoinFrom(words, S, i) ==
    IF i > Len(words) THEN ""
    ELSE LET rest == JoinFrom(words, S, i + 1)
         IN  IF i \notin S THEN rest
             ELSE IF rest = "" THEN words[i] ELSE words[i] \o " " \o rest

Titles == {JoinFrom(TitleWords, S, 1) : S \in SUBSET (1..Len(TitleWords))}

Descriptions ==
    {"", "Enterprise case study with SDK and API tooling", "A tutorial", "A survey"}

IndustryUrl == "https://example.com/blog/post"
ArxivUrl    == "https://arxiv.org/abs/2401.00001"
ArxivUrlUpper == "https://ArXiv.org/abs/2401.00002"
Urls == {IndustryUrl, ArxivUrl, ArxivUrlUpper}

ExampleTitle == "New Agentic Framework Deployed in Production at Scale"

NoScore == PyInt(0)

\* published: an ISO timestamp, kept as the hour it names counted from the
\* time of the run (negative: in the past), or some other text
Iso(h) == [iso |-> TRUE, hour |-> h, text |-> ""]
Text(s) == [iso |-> FALSE, hour |-> 0, text |-> s]

Article(title, description, url, published) ==
    [title |-> title, description |-> description, url |-> url,
     published |-> published, date_verified |-> published.iso, idx |-> 0,
     annotated |-> FALSE, relevance_score |-> NoScore, category |-> ""]


ArticleSpace ==
    {Article(t, d, u, Iso(0)) : t \in Titles, d \in Descriptions, u \in Urls}
    \cup {Article(ExampleTitle, "", u, Iso(0)) : u \in Urls}

NoArticle == Article("", "", "", Text(""))

\* the records the input files of the runs are made of
FullTitle == "Agentic workflow Production framework LLM developer"
LongDescription == "Enterprise case study with SDK and API tooling"

PoolArticles ==
    { Article(FullTitle, "", IndustryUrl, Iso(-1)),
      Article(FullTitle, LongDescription, ArxivUrl, Iso(-1)),
      Article(FullTitle, LongDescription, ArxivUrlUpper, Iso(-1)),
      Article("Production LLM developer", "", IndustryUrl, Iso(-1)),
      Article("Agentic Production LLM", LongDescription, IndustryUrl, Text("Unknown")) }

\* score_article and categorize_article read title, description and url
\* only: over the records of the runs their values are tabulated once
TextOf(a) == <<a.title, a.description, a.url>>
OfText(x) == Article(x[1], x[2], x[3], Text(""))
PoolTexts == {TextOf(a) : a \in PoolArticles}

today_score_table == [x \in PoolTexts |-> today_score_article(OfText(x))]
today_category_table == [x \in PoolTexts |-> today_categorize_article(OfText(x))]
fg_score_table == [x \in PoolTexts |-> fg_score_article(OfText(x))]
fg_category_table == [x \in PoolTexts |-> fg_categorize_article(OfText(x))]
aa_score_table == [x \in PoolTexts |-> aa_score_article(OfText(x))]
aa_category_table == [x \in PoolTexts |-> aa_categorize_article(OfText(x))]
NoRet == [fn |-> "", score |-> NoScore, category |-> ""]

-----------------------------------------------------------------------------
(* Single calls of the pure functions *)

InitCall ==
    /\ prog = "call"
    /\ pc = "call"
    /\ art \in ArticleSpace
    /\ ret = NoRet
    /\ hours = 0
    /\ entries = << >>
    /\ file = << >>
    /\ articles = << >>
    /\ recent_articles = << >>
    /\ scored = << >>
    /\ selected = << >>
    /\ arxiv_count = 0

Return(fn, score, category) ==
    /\ prog = "call"
    /\ pc = "call"
    /\ pc' = "returned"
    /\ ret' = [fn |-> fn, score |-> score, category |-> category]
    /\ UNCHANGED <<prog, hours, entries, file, articles, recent_articles,
                   scored, selected, arxiv_count, art>>

CallTodayScore == Return("analyze_today.score_article", today_score_article(art), "")
CallTodayCategorize ==
    Return("analyze_today.categorize_article", NoScore, today_categorize_article(art))
CallFgScore == Return("filter_and_generate.score_article", fg_score_article(art), "")
CallFgCategorize ==
    Return("filter_and_generate.categorize_article", NoScore, fg_categorize_article(art))
CallAaScore == Return("analyze_articles.score_article", aa_score_article(art), "")
CallAaCategorize ==
    Return("analyze_articles.categorize_article", NoScore, aa_categorize_article(art))

NextCall ==
    \/ CallTodayScore
    \/ CallTodayCategorize
    \/ CallFgScore
    \/ CallFgCategorize
    \/ CallAaScore
    \/ CallAaCategorize

SpecCall == InitCall /\ [][NextCall]_vars

-----------------------------------------------------------------------------
(* list.sort(key=..., reverse=True): stable, descending by key.  The list  *)
(* is given as records [key, item]; key is a Python number.                *)

\* a sort that is not stable: x goes before the elements of equal key
InsertDescUnstable(sorted, x) ==
    LET k == Cardinality({j \in 1..Len(sorted) : sorted[j].key.v > x.key.v})
    IN  SubSeq(sorted, 1, k) \o <<x>> \o SubSeq(sorted, k + 1, Len(sorted))

\* x goes after every element whose key is >= x's key
InsertDesc(sorted, x) ==
    LET k == Cardinality({j \in 1..Len(sorted) : sorted[j].key.v >= x.key.v})
    IN  SubSeq(sorted, 1, k) \o <<x>> \o SubSeq(sorted, k + 1, Len(sorted))

RECURSIVE SortDescKeyed(_)
SortDescKeyed(s) ==
    IF s = << >> THEN << >>
    ELSE InsertDesc(SortDescKeyed(SubSeq(s, 1, Len(s) - 1)), s[Len(s)])

Items(keyed) == [j \in 1..Len(keyed) |-> keyed[j].item]

\* scored.sort(key=lambda x: x['score'], reverse=True)
SortByScore(items) ==
    Items(SortDescKeyed([j \in 1..Len(items) |-> [key |-> items[j].score, item |-> items[j]]]))

\* scored_articles.sort(key=lambda x: x['relevance_score'], reverse=True)
SortByRelevanceScore(items) ==
    Items(SortDescKeyed([j \in 1..Len(items) |->
                            [key |-> items[j].relevance_score, item |-> items[j]]]))

-----------------------------------------------------------------------------
(* analyze_today.main *)

today_threshold == 60
today_max_selected == 12
today_max_arxiv == 3

\* the loop "for article in articles" that fills scored
RECURSIVE today_scored(_, _)
today_scored(arts, i) ==
    IF i > Len(arts) THEN << >>
    ELSE LET score == today_score_table[TextOf(arts[i])]
         IN  (IF PyGe(score, today_threshold)
                THEN <<[article |-> arts[i], score |-> score,
                        category |-> today_category_table[TextOf(arts[i])]]>>
                ELSE << >>)
             \o today_scored(arts, i + 1)

\* 'arxiv.org' in url, with url = item['article'].get('url', '') as written
today_counted_as_arxiv(a) == In("arxiv.org", a.url)

\* the walk that stops, instead of skipping, at a preprint over the cap
RECURSIVE today_walk_stop_at_cap(_, _, _, _)
today_walk_stop_at_cap(items, i, sel, count) ==
    IF i > Len(items) THEN [selected |-> sel, arxiv_count |-> count]
    ELSE IF Len(sel) >= today_max_selected
      THEN [selected |-> sel, arxiv_count |-> count]
    ELSE IF today_counted_as_arxiv(items[i].article)
      THEN IF count >= today_max_arxiv
             THEN [selected |-> sel, arxiv_count |-> count]
             ELSE today_walk_stop_at_cap(items, i + 1, Append(sel, items[i]),
                                         count + 1)
    ELSE today_walk_stop_at_cap(items, i + 1, Append(sel, items[i]), count)

\* the loop "for item in scored"; the URL is tested as it is, not lower-cased
RECURSIVE today_walk(_, _, _, _)
today_walk(items, i, sel, count) ==
    IF i > Len(items) THEN [selected |-> sel, arxiv_count |-> count]
    ELSE IF Len(sel) >= today_max_selected
      THEN [selected |-> sel, arxiv_count |-> count]
    ELSE IF today_counted_as_arxiv(items[i].article)
      THEN IF count >= today_max_arxiv
             THEN today_walk(items, i + 1, sel, count)
             ELSE today_walk(items, i + 1, Append(sel, items[i]), count + 1)
    ELSE today_walk(items, i + 1, Append(sel, items[i]), count)

-----------------------------------------------------------------------------
(* filter_and_generate.main: the article dict itself is annotated and kept *)

fg_threshold == 60
fg_max_selected == 15
fg_max_arxiv == 3

\* article['relevance_score'] = score; article['category'] = ...
fg_annotate(a) ==
    LET score == fg_score_table[TextOf(a)]
    IN  IF PyGe(score, fg_threshold)
          THEN [a EXCEPT !.annotated = TRUE, !.relevance_score = score,
                         !.category = fg_category_table[TextOf(a)]]
          ELSE a

\* the list articles after the loop: the same dicts, annotated in place
fg_articles_after(arts) == [j \in 1..Len(arts) |-> fg_annotate(arts[j])]

RECURSIVE fg_scored(_, _)
fg_scored(arts, i) ==
    IF i > Len(arts) THEN << >>
    ELSE (IF PyGe(fg_score_table[TextOf(arts[i])], fg_threshold)
            THEN <<fg_annotate(arts[i])>> ELSE << >>)
         \o fg_scored(arts, i + 1)

\* 'arxiv.org' in article.get('url', ''), the URL as written
fg_counted_as_arxiv(a) == In("arxiv.org", a.url)

RECURSIVE fg_walk(_, _, _, _)
fg_walk(items, i, sel, count) ==
    IF i > Len(items) THEN [selected |-> sel, arxiv_count |-> count]
    ELSE IF Len(sel) >= fg_max_selected
      THEN [selected |-> sel, arxiv_count |-> count]
    ELSE IF fg_counted_as_arxiv(items[i])
      THEN IF count >= fg_max_arxiv
             THEN fg_walk(items, i + 1, sel, count)
             ELSE fg_walk(items, i + 1, Append(sel, items[i]), count + 1)
    ELSE fg_walk(items, i + 1, Append(sel, items[i]), count)

-----------------------------------------------------------------------------
(* analyze_articles.main *)

aa_threshold == 60
aa_arxiv_limit == 3
aa_recent_hours == 48

\* datetime.fromisoformat(published.replace('Z', '+00:00')): raises unless
\* the text is an ISO timestamp
FromIsoformat(published) ==
    IF published.iso THEN [ok |-> TRUE, hour |-> published.hour]
    ELSE [ok |-> FALSE, hour |-> 0]

\* is_recent(published, hours); hours are counted from the time of the run
is_recent(published, h) ==
    LET pub_date == FromIsoformat(published)
    IN  IF pub_date.ok THEN pub_date.hour >= 0 - h ELSE FALSE

RECURSIVE aa_recent(_, _)
aa_recent(arts, i) ==
    IF i > Len(arts) THEN << >>
    ELSE (IF is_recent(arts[i].published, aa_recent_hours) THEN <<arts[i]>> ELSE << >>)
         \o aa_recent(arts, i + 1)

RECURSIVE aa_scored(_, _)
aa_scored(arts, i) ==
    IF i > Len(arts) THEN << >>
    ELSE LET score == aa_score_table[TextOf(arts[i])]
         IN  (IF PyGe(score, aa_threshold)
                THEN <<[article |-> arts[i], score |-> score,
                        category |-> aa_category_table[TextOf(arts[i])]]>>
                ELSE << >>)
             \o aa_scored(arts, i + 1)

\* is_arxiv = 'arxiv.org' in link, the link as written
aa_counted_as_arxiv(a) == In("arxiv.org", a.url)

\* the loop "for item in scored_articles": no limit on the number selected
RECURSIVE aa_walk(_, _, _, _)
aa_walk(items, i, sel, count) ==
    IF i > Len(items) THEN [selected |-> sel, arxiv_count |-> count]
    ELSE IF aa_counted_as_arxiv(items[i].article)
      THEN IF count >= aa_arxiv_limit
             THEN aa_walk(items, i + 1, sel, count)
             ELSE aa_walk(items, i + 1, Append(sel, items[i]), count + 1)
    ELSE aa_walk(items, i + 1, Append(sel, items[i]), count)

-----------------------------------------------------------------------------
(* The scripts run on a collected_articles.json *)

Scripts == {"analyze_today", "filter_and_generate", "analyze_articles"}

\* json.load: the records of the file, each its own object
WithIdx(s) == [j \in 1..Len(s) |-> [s[j] EXCEPT !.idx = j]]

Load ==
    /\ prog \in Scripts
    /\ pc = "load"
    /\ articles' = file
    /\ pc' = IF prog = "analyze_articles" THEN "filter" ELSE "score"
    /\ UNCHANGED <<prog, hours, entries, file, recent_articles, scored, selected,
                   arxiv_count, art, ret>>

TodayScore ==
    /\ prog = "analyze_today"
    /\ pc = "score"
    /\ scored' = today_scored(articles, 1)
    /\ pc' = "sort"
    /\ UNCHANGED <<prog, hours, entries, file, articles, recent_articles, selected,
                   arxiv_count, art, ret>>

TodaySort ==
    /\ prog = "analyze_today"
    /\ pc = "sort"
    /\ scored' = SortByScore(scored)
    /\ pc' = "select"
    /\ UNCHANGED <<prog, hours, entries, file, articles, recent_articles, selected,
                   arxiv_count, art, ret>>

TodaySelect ==
    /\ prog = "analyze_today"
    /\ pc = "select"
    /\ LET w == today_walk(scored, 1, << >>, 0)
       IN  /\ selected' = w.selected
           /\ arxiv_count' = w.arxiv_count
    /\ pc' = "done"
    /\ UNCHANGED <<prog, hours, entries, file, articles, recent_articles, scored,
                   art, ret>>

FgScore ==
    /\ prog = "filter_and_generate"
    /\ pc = "score"
    /\ scored' = fg_scored(articles, 1)
    /\ articles' = fg_articles_after(articles)
    /\ pc' = "sort"
    /\ UNCHANGED <<prog, hours, entries, file, recent_articles, selected,
                   arxiv_count, art, ret>>

FgSort ==
    /\ prog = "filter_and_generate"
    /\ pc = "sort"
    /\ scored' = SortByRelevanceScore(scored)
    /\ pc' = "select"
    /\ UNCHANGED <<prog, hours, entries, file, articles, recent_articles, selected,
                   arxiv_count, art, ret>>

FgSelect ==
    /\ prog = "filter_and_generate"
    /\ pc = "select"
    /\ LET w == fg_walk(scored, 1, << >>, 0)
       IN  /\ selected' = w.selected
           /\ arxiv_count' = w.arxiv_count
    /\ pc' = "done"
    /\ UNCHANGED <<prog, hours, entries, file, articles, recent_articles, scored,
                   art, ret>>

AaFilterRecent ==
    /\ prog = "analyze_articles"
    /\ pc = "filter"
    /\ recent_articles' = aa_recent(articles, 1)
    /\ pc' = "score"
    /\ UNCHANGED <<prog, hours, entries, file, articles, scored, selected,
                   arxiv_count, art, ret>>

AaScore ==
    /\ prog = "analyze_articles"
    /\ pc = "score"
    /\ scored' = aa_scored(recent_articles, 1)
    /\ pc' = "sort"
    /\ UNCHANGED <<prog, hours, entries, file, articles, recent_articles, selected,
                   arxiv_count, art, ret>>

AaSort ==
    /\ prog = "analyze_articles"
    /\ pc = "sort"
    /\ scored' = SortByScore(scored)
    /\ pc' = "select"
    /\ UNCHANGED <<prog, hours, entries, file, articles, recent_articles, selected,
                   arxiv_count, art, ret>>

AaSelect ==
    /\ prog = "analyze_articles"
    /\ pc = "select"
    /\ LET w == aa_walk(scored, 1, << >>, 0)
       IN  /\ selected' = w.selected
           /\ arxiv_count' = w.arxiv_count
    /\ pc' = "done"
    /\ UNCHANGED <<prog, hours, entries, file, articles, recent_articles, scored,
                   art, ret>>

Analyze ==
    \/ Load
    \/ TodayScore
    \/ TodaySort
    \/ TodaySelect
    \/ FgScore
    \/ FgSort
    \/ FgSelect
    \/ AaFilterRecent
    \/ AaScore
    \/ AaSort
    \/ AaSelect

-----------------------------------------------------------------------------
(* Input files for the scripts: short lists in any order, and longer lists *)
(* made of two runs of equal records.                                      *)

MaxShort == 3
MaxRun == 8

Rep(a, n) == [j \in 1..n |-> a]

ShortPools == UNION {[1..n -> PoolArticles] : n \in 0..MaxShort}
RunPools ==
    {Rep(a, m) \o Rep(b, n) : a \in PoolArticles, b \in PoolArticles,
                               m \in 0..MaxRun, n \in 0..MaxRun}
Pools == {WithIdx(p) : p \in ShortPools \cup RunPools}

Init ==
    /\ prog \in Scripts
    /\ pc = "load"
    /\ file \in Pools
    /\ hours = 0
    /\ entries = << >>
    /\ articles = << >>
    /\ recent_articles = << >>
    /\ scored = << >>
    /\ selected = << >>
    /\ arxiv_count = 0
    /\ art = NoArticle
    /\ ret = NoRet

Next == Analyze

Spec == Init /\ [][Next]_vars

-----------------------------------------------------------------------------
(* src/collect_articles.py *)

\* a feed entry: title, link, summary, and a date that parses (dated, at
\* hour) or none
Entry(title, link, summary, dated, hour) ==
    [title |-> title, link |-> link, summary |-> summary,
     dated |-> dated, hour |-> hour]

\* parse_published_date(entry): None when no date field parses
parse_published_date(entry) ==
    IF entry.dated THEN [none |-> FALSE, hour |-> entry.hour]
    ELSE [none |-> TRUE, hour |-> 0]

\* pub_date.isoformat()
Isoformat(hour) == Iso(hour)

\* the loop over feed.entries
RECURSIVE fetch_articles(_, _, _)
fetch_articles(feed, i, cutoff_time) ==
    IF i > Len(feed) THEN << >>
    ELSE LET pub_date == parse_published_date(feed[i])
             rest == fetch_articles(feed, i + 1, cutoff_time)
         IN  IF pub_date.none
               THEN <<Article(feed[i].title, feed[i].summary, feed[i].link,
                              Text("Unknown"))>> \o rest
             ELSE IF pub_date.hour < cutoff_time THEN rest
             ELSE <<Article(feed[i].title, feed[i].summary, feed[i].link,
                            Isoformat(pub_date.hour))>> \o rest

\* key=lambda x: x['published'] if x['published'] != "Unknown" else "":
\* ISO texts compare as their times do, the empty text is below them all
PublishedKey(a) ==
    IF a.published.iso THEN [v |-> a.published.hour, float |-> FALSE]
    ELSE [v |-> -1000000, float |-> FALSE]

\* all_articles.sort(key=..., reverse=True)
SortByPublished(arts) ==
    Items(SortDescKeyed([j \in 1..Len(arts) |-> [key |-> PublishedKey(arts[j]), item |-> arts[j]]]))

\* main() and collect_articles up to the end of the fetch loop:
\* cutoff_time = now - timedelta(hours=hours), whatever hours is
CollectFetch ==
    /\ prog = "collect_articles"
    /\ pc = "main"
    /\ articles' = fetch_articles(entries, 1, 0 - hours)
    /\ pc' = "sort"
    /\ UNCHANGED <<prog, hours, entries, file, recent_articles, scored, selected,
                   arxiv_count, art, ret>>

\* the sort and json.dump
CollectSave ==
    /\ prog = "collect_articles"
    /\ pc = "sort"
    /\ file' = WithIdx(SortByPublished(articles))
    /\ pc' = "saved"
    /\ UNCHANGED <<prog, hours, entries, articles, recent_articles, scored, selected,
                   arxiv_count, art, ret>>

\* one of the scripts is started on the file
RunScript ==
    /\ prog = "collect_articles"
    /\ pc = "saved"
    /\ prog' \in Scripts
    /\ pc' = "load"
    /\ articles' = << >>
    /\ UNCHANGED <<hours, entries, file, recent_articles, scored, selected,
                   arxiv_count, art, ret>>

MaxEntries == 3

\* --hours: any int (default 24)
HoursArgs == {-24, 24, 168}

FeedEntries ==
    { Entry(FullTitle, IndustryUrl, "", TRUE, -1),
      Entry(FullTitle, IndustryUrl, "", FALSE, 0),
      Entry(FullTitle, IndustryUrl, "", TRUE, -100),
      Entry(FullTitle, ArxivUrl, LongDescription, TRUE, -1) }

Feeds == UNION {[1..n -> FeedEntries] : n \in 0..MaxEntries}

InitDigest ==
    /\ prog = "collect_articles"
    /\ pc = "main"
    /\ hours \in HoursArgs
    /\ entries \in Feeds
    /\ file = << >>
    /\ articles = << >>
    /\ recent_articles = << >>
    /\ scored = << >>
    /\ selected = << >>
    /\ arxiv_count = 0
    /\ art = NoArticle
    /\ ret = NoRet

NextDigest ==
    \/ CollectFetch
    \/ CollectSave
    \/ RunScript
    \/ Analyze

SpecDigest == InitDigest /\ [][NextDigest]_vars

-----------------------------------------------------------------------------
(* Properties *)

\* the article of an element of scored / selected, and its score
ItemArticle(item) == IF prog = "filter_and_generate" THEN item ELSE item.article
ItemScore(item) ==
    IF prog = "filter_and_generate" THEN item.relevance_score ELSE item.score

\* title + " " + description, lower-cased: the text the keyword tests read
TextRead(a) == Combined(Lower(a.title), Lower(a.description))

\* the URL is on the arxiv.org domain (host names are case-insensitive)
PreprintSourced(a) == In("arxiv.org", Lower(a.url))

\* the running script's score of a loaded record
ScoreOf(a) ==
    IF prog = "analyze_today" THEN today_score_table[TextOf(a)]
    ELSE IF prog = "filter_and_generate" THEN fg_score_table[TextOf(a)]
    ELSE aa_score_table[TextOf(a)]

\* the running script's agent-relevance terms
AgentTerms ==
    IF prog = "analyze_today" THEN today_agentic_keywords
    ELSE IF prog = "filter_and_generate" THEN fg_high_value
    ELSE aa_agent_keywords

Selected(a) == \E k \in 1..Len(selected) : ItemArticle(selected[k]).idx = a.idx

ScoreFns ==
    {"analyze_today.score_article", "filter_and_generate.score_article",
     "analyze_articles.score_article"}

\* C1: every score a score_article variant returns is an integer in 0..100.
C1_ScoreIsIntegerInRange ==
    (pc = "returned" /\ ret.fn \in ScoreFns)
        => IsInt(ret.score) /\ PyGe(ret.score, 0) /\ PyLe(ret.score, 100)

\* C2: an article whose text matches no agent-relevance term scores 0 and is
\* not selected, in every script.
C2_RelevanceGate ==
    (prog \in Scripts /\ pc = "done")
        => \A j \in 1..Len(articles) :
              ~AnyIn(AgentTerms, TextRead(articles[j]))
                  => ScoreOf(articles[j]).v = 0 /\ ~Selected(articles[j])

\* C3: after the selection walk at most 3 selected articles are
\* preprint-sourced (URL on the arxiv.org domain).
C3_PreprintCap ==
    (prog \in Scripts /\ pc = "done")
        => Cardinality({k \in 1..Len(selected) :
                           PreprintSourced(ItemArticle(selected[k]))}) <= 3

\* C4: the selection is never longer than the script's maximum (12 in
\* analyze_today, 15 in filter_and_generate, at most 15 in analyze_articles).
C4_MaxSelected ==
    (prog \in Scripts /\ pc = "done")
        => Len(selected) <= (IF prog = "analyze_today" THEN 12 ELSE 15)

\* C5: the selection is in descending order of score, and selected articles
\* of equal score are in the order of the input list.
C5_SelectionOrdered ==
    (prog \in Scripts /\ pc = "done")
        => \A i \in 1..Len(selected), j \in 1..Len(selected) :
              i < j => \/ ItemScore(selected[i]).v > ItemScore(selected[j]).v
                       \/ /\ ItemScore(selected[i]).v = ItemScore(selected[j]).v
                          /\ ItemArticle(selected[i]).idx < ItemArticle(selected[j]).idx

\* a finished walk that skipped a capped preprint, selected a non-preprint
\* ranked after it, and holds both a tie and a strict descent
C5_Witness ==
    /\ prog \in Scripts
    /\ pc = "done"
    /\ arxiv_count = 3
    /\ \E i \in 1..Len(scored), k \in 1..Len(selected) :
          /\ In("arxiv.org", ItemArticle(scored[i]).url)
          /\ \A m \in 1..Len(selected) :
                ItemArticle(selected[m]).idx # ItemArticle(scored[i]).idx
          /\ ~In("arxiv.org", ItemArticle(selected[k]).url)
          /\ ItemScore(selected[k]).v < ItemScore(scored[i]).v
    /\ \E i \in 1..(Len(selected) - 1) :
          ItemScore(selected[i]).v = ItemScore(selected[i + 1]).v
    /\ \E i \in 1..(Len(selected) - 1) :
          ItemScore(selected[i]).v > ItemScore(selected[i + 1]).v

\* C6: an article whose text matches a production indicator term of a
\* categorize_article variant is categorized 'Production Use Cases' by it.
C6_ProductionPriority ==
    pc = "returned" =>
        /\ (ret.fn = "analyze_today.categorize_article"
               /\ AnyIn(today_production_indicators, TextRead(art)))
             => ret.category = "Production Use Cases"
        /\ (ret.fn = "filter_and_generate.categorize_article"
               /\ AnyIn(fg_production_indicators, TextRead(art)))
             => ret.category = "Production Use Cases"
        /\ (ret.fn = "analyze_articles.categorize_article"
               /\ AnyIn(aa_production_indicators, TextRead(art)))
             => ret.category = "Production Use Cases"

\* a preprint-free article matching production and framework terms,
\* categorized as a production use case
C6_Witness ==
    /\ pc = "returned"
    /\ ret.fn = "analyze_articles.categorize_article"
    /\ AnyIn(aa_production_indicators, TextRead(art))
    /\ AnyIn(aa_framework_indicators, TextRead(art))
    /\ ~In("arxiv.org", art.url)
    /\ ret.category = "Production Use Cases"

\* C7: analyze_articles keeps every article whose published value is no
\* timestamp (missing, unparsable, 'Unknown'): none is dropped by the
\* recency filter.
C7_RecencyFailsOpen ==
    (prog = "analyze_articles" /\ pc \in {"score", "sort", "select", "done"})
        => \A j \in 1..Len(articles) :
              ~articles[j].published.iso
                  => \E k \in 1..Len(recent_articles) :
                        recent_articles[k].idx = articles[j].idx

IsExample(a) == a.title = ExampleTitle /\ a.description = "" /\ a.url = IndustryUrl

C9_ThreeOfFivePreprints ==
    (prog \in Scripts /\ pc = "done")
        => LET top == {i \in 1..Len(scored) :
                          /\ PreprintSourced(ItemArticle(scored[i]))
                          /\ PyGe(ItemScore(scored[i]), 90)}
               first3 == {i \in top : Cardinality({m \in top : m < i}) < 3}
           IN  Cardinality(top) >= 5
                 => \A i \in top : Selected(ItemArticle(scored[i])) <=> i \in first3

\* C10: a run with a negative lookback_hours stops with a configuration
\* error before anything is fetched: no stage runs on it.
C10_ConfigValidated ==
    hours < 0 => pc \in {"main", "config_error"}

\* C11: a preprint-sourced article that matches no production indicator and
\* matches a framework/tool indicator is never categorized 'Frameworks &
\* Tools', by any categorize_article variant.
C11_PreprintNotFramework ==
    (pc = "returned" /\ PreprintSourced(art)) =>
        /\ (ret.fn = "analyze_today.categorize_article"
               /\ ~AnyIn(today_production_indicators, TextRead(art))
               /\ AnyIn(today_framework_indicators, TextRead(art)))
             => ret.category # "Frameworks & Tools"
        /\ (ret.fn = "filter_and_generate.categorize_article"
               /\ ~AnyIn(fg_production_indicators, TextRead(art))
               /\ AnyIn(fg_framework_indicators, TextRead(art)))
             => ret.category # "Frameworks & Tools"
        /\ (ret.fn = "analyze_articles.categorize_article"
               /\ ~AnyIn(aa_production_indicators, TextRead(art))
               /\ AnyIn(aa_framework_indicators, TextRead(art)))
             => ret.category # "Frameworks & Tools"

\* C12: for every preprint-sourced article with zero production-practicality
\* matches, the score returned by any score_article variant is at most 40%
\* of the raw additive total and at most 40 (hence below the threshold 60).
C12_PreprintPenalty ==
    (pc = "returned" /\ PreprintSourced(art)) =>
        /\ (ret.fn = "analyze_today.score_article"
               /\ ~AnyIn(today_production_keywords, TextRead(art)))
             => /\ ret.score.v <= 4 * Max(0, today_raw_score(art))
                /\ ret.score.v <= 400
        /\ (ret.fn = "filter_and_generate.score_article"
               /\ ~AnyIn(fg_production_keywords, TextRead(art)))
             => /\ ret.score.v <= 4 * Max(0, fg_raw_score(art))
                /\ ret.score.v <= 400
        /\ (ret.fn = "analyze_articles.score_article"
               /\ ~AnyIn(aa_production_keywords, TextRead(art)))
             => /\ ret.score.v <= 4 * aa_raw_score(art)
                /\ ret.score.v <= 400

\* the records the scoring loop of the running script reads
Scoreable == IF prog = "analyze_articles" THEN recent_articles ELSE articles

\* the ranks of scored, before rank i, whose article was selected
SelectedBefore(i) ==
    {k \in 1..(i - 1) : Selected(ItemArticle(scored[k]))}

\* the running script's maximum was reached by the articles ranked before i
MaxReachedBefore(i) ==
    IF prog = "analyze_today"
      THEN Cardinality(SelectedBefore(i)) >= today_max_selected
    ELSE IF prog = "filter_and_generate"
      THEN Cardinality(SelectedBefore(i)) >= fg_max_selected
    ELSE FALSE

\* C13: the selection walk skips and never stops or pads: every selected
\* element is an input article scoring at least 60 and appears once; every
\* threshold-passing article is ranked, and one absent from the selection is
\* either preprint-sourced with 3 preprint-sourced articles ranked before it
\* selected, or has the maximum number of articles ranked before it selected.
C13_SkipNotStop ==
    (prog \in Scripts /\ pc = "done") =>
        /\ \A k \in 1..Len(selected) :
              /\ \E j \in 1..Len(articles) :
                    articles[j] = ItemArticle(selected[k])
              /\ ItemScore(selected[k]) = ScoreOf(ItemArticle(selected[k]))
              /\ PyGe(ItemScore(selected[k]), 60)
              /\ \A m \in 1..Len(selected) :
                    ItemArticle(selected[m]).idx = ItemArticle(selected[k]).idx
                        => m = k
        /\ \A j \in 1..Len(Scoreable) :
              PyGe(ScoreOf(Scoreable[j]), 60)
                  => \E i \in 1..Len(scored) :
                        ItemArticle(scored[i]).idx = Scoreable[j].idx
        /\ \A i \in 1..Len(scored) :
              ~Selected(ItemArticle(scored[i]))
                  => \/ /\ PreprintSourced(ItemArticle(scored[i]))
                        /\ Cardinality({k \in SelectedBefore(i) :
                               PreprintSourced(ItemArticle(scored[k]))}) >= 3
                     \/ MaxReachedBefore(i)

\* analyze_today finished below its maximum, having skipped a preprint over
\* the cap and selected a non-preprint article ranked after it
C13_Witness ==
    /\ prog = "analyze_today"
    /\ pc = "done"
    /\ Len(selected) < today_max_selected
    /\ \E i \in 1..Len(scored), k \in 1..Len(scored) :
          /\ i < k
          /\ PreprintSourced(scored[i].article)
          /\ ~Selected(scored[i].article)
          /\ ~PreprintSourced(scored[k].article)
          /\ Selected(scored[k].article)

\* C14: no stage mutates a record in place: once the scoring loop of a script
\* has run, every loaded article record still has the fields and values it
\* was loaded with.
C14_NoInPlaceMutation ==
    (prog \in Scripts /\ pc \in {"sort", "select", "done"}) => articles = file

\* the running script's score_article treats the article as a preprint
ScoredAsPreprint(a) ==
    IF prog = "analyze_today" THEN today_scored_as_arxiv(a)
    ELSE IF prog = "filter_and_generate" THEN fg_scored_as_arxiv(a)
    ELSE aa_scored_as_arxiv(a)

\* the running script's selection walk counts the article against the cap
CountedAsPreprint(a) ==
    IF prog = "analyze_today" THEN today_counted_as_arxiv(a)
    ELSE IF prog = "filter_and_generate" THEN fg_counted_as_arxiv(a)
    ELSE aa_counted_as_arxiv(a)

\* C15: within a script the scorer and the selection walk agree on which
\* articles are preprints: a ranked article is counted against the preprint
\* cap exactly when score_article treated it as a preprint, the running count
\* is the number of selected articles scored as preprints, and that number
\* never exceeds the cap 3.
C15_ScorerSelectorAgree ==
    (prog \in Scripts /\ pc = "done") =>
        LET scoredAs == {k \in 1..Len(selected) :
                            ScoredAsPreprint(ItemArticle(selected[k]))}
        IN  /\ \A i \in 1..Len(scored) :
                  ScoredAsPreprint(ItemArticle(scored[i]))
                      <=> CountedAsPreprint(ItemArticle(scored[i]))
            /\ arxiv_count = Cardinality(scoredAs)
            /\ Cardinality(scoredAs) <= 3

=============================================================================
